---------------------------- MODULE Spec2Model ----------------------------
(***************************************************************************)
(* Model of src/polar_sh_dash.py: the product payload builder              *)
(* (build_product_payload_simple with _is_uuid and _as_int_cents) and the  *)
(* request gateway (PolarAPI._make_request with format_json_output).       *)
(*                                                                         *)
(* Python values are modelled as follows.  A str is a sequence of          *)
(* one-character strings, so that strip(), len() and the UUID pattern are  *)
(* computed character by character.  A value that may be None is tagged:   *)
(* None, Str(s), IntV(n).  A dict is a function from keys to values, so a  *)
(* key that is not set is not in its DOMAIN.  plan, price_type and the     *)
(* dict keys are only ever compared for equality and stay TLA+ strings.    *)
(***************************************************************************)
EXTENDS Integers, Sequences, FiniteSets, TLC

VARIABLES
    args,        \* the thirteen arguments of build_product_payload_simple
    bret,        \* its outcome: NotCalled, Raise(msg) or Return(payload)
    polar_api,   \* the PolarAPI client the gateway call is made on
    json_error_is_request_exception,
                 \* whether the installed requests raises its own
                 \* JSONDecodeError (a RequestException, requests >= 2.27)
                 \* from Response.json(), or the json module's ValueError
    call,        \* the last gateway call: method and what the wire did
    ret,         \* the outcome of the last _make_request
    shown,       \* format_json_output of the last returned value
    op,          \* the operation function called last: name, arguments and
                 \* the client stored when it was called
    pending,     \* the outbound call the operation is blocked on, if any
    calls,       \* the outbound calls the operation has issued
    out          \* what the operation returned, once it has returned

vars ==
    <<args, bret, polar_api, json_error_is_request_exception, call, ret, shown,
      op, pending, calls, out>>

builderVars == <<args, bret>>
gatewayVars == <<polar_api, json_error_is_request_exception, call, ret, shown>>
operationVars == <<op, pending, calls, out>>

---------------------------------------------------------------------------
(* Bounds of the model.                                                    *)

\* strings are padded with 0..MaxPad blanks on each side
MaxPad == 1
\* names have 0..MaxNameLen letters
MaxNameLen == 4

---------------------------------------------------------------------------
(* Python values.                                                          *)

None == [tag |-> "None"]
Str(s) == [tag |-> "str", v |-> s]
IntV(n) == [tag |-> "int", v |-> n]

NotCalled == [kind |-> "not_called"]
Raise(exc, msg) == [kind |-> "raise", exc |-> exc, msg |-> msg]
Return(v) == [kind |-> "return", value |-> v]

\* the characters str.strip() removes
Whitespace == {" ", "\t", "\n", "\r"}

RECURSIVE LStrip(_)
LStrip(s) ==
    IF s # <<>> /\ Head(s) \in Whitespace THEN LStrip(Tail(s)) ELSE s

RECURSIVE RStrip(_)
RStrip(s) ==
    IF s # <<>> /\ s[Len(s)] \in Whitespace
    THEN RStrip(SubSeq(s, 1, Len(s) - 1))
    ELSE s

Strip(s) == RStrip(LStrip(s))

DigitChars == <<"0", "1", "2", "3", "4", "5", "6", "7", "8", "9">>

IsDigit(c) == \E i \in 1..Len(DigitChars) : DigitChars[i] = c

DigitVal(c) == (CHOOSE i \in 1..Len(DigitChars) : DigitChars[i] = c) - 1

HexChars ==
    {DigitChars[i] : i \in 1..Len(DigitChars)}
        \cup {"a", "b", "c", "d", "e", "f", "A", "B", "C", "D", "E", "F"}

---------------------------------------------------------------------------
(* _is_uuid: UUID_RE.match((s or "").strip()).  The pattern is anchored,   *)
(* five groups of 8-4-4-4-12 hex digits, the third starting with 1-5 and   *)
(* the fourth with 8, 9, a or b.                                           *)

UuidLen == 36

UUID_RE_match(t) ==
    /\ Len(t) = UuidLen
    /\ \A i \in 1..UuidLen :
          CASE i \in {9, 14, 19, 24} -> t[i] = "-"
            [] i = 15 -> t[i] \in {"1", "2", "3", "4", "5"}
            [] i = 20 -> t[i] \in {"8", "9", "a", "b", "A", "B"}
            [] OTHER -> t[i] \in HexChars

is_uuid(s) == UUID_RE_match(Strip(s))

---------------------------------------------------------------------------
(* _as_int_cents: None for None or a blank string, else                    *)
(* int(float(str(v).strip())), and None when that raises.                  *)
(*                                                                         *)
(* float() is modelled on the decimal literals [sign] digits [. digits]    *)
(* and on inf / nan; every other text of the model raises ValueError.      *)
(* float() yields the double nearest to the literal, ties to even; int()   *)
(* truncates it toward zero and raises on inf and nan.  For a literal      *)
(* I.F with k fraction digits, F > 0 and N = I + 1 < 2^31, the doubles     *)
(* just below N are 2^(e - 52) apart, where 2^e < N <= 2^(e + 1), and N    *)
(* itself has an even mantissa: the nearest double is N exactly when       *)
(* N - I.F <= 2^(e - 53), that is (10^k - F) * 2^(53 - e) <= 10^k; it lies *)
(* in [I, N) otherwise.  The products are computed on decimal digits.      *)

RECURSIVE DigitsValue(_)
DigitsValue(ds) ==
    IF ds = <<>> THEN 0
    ELSE 10 * DigitsValue(SubSeq(ds, 1, Len(ds) - 1)) + DigitVal(ds[Len(ds)])

AllDigits(ds) == \A i \in 1..Len(ds) : IsDigit(ds[i])

\* the index of the first "." of s, or 0
DotAt(s) ==
    IF \E i \in 1..Len(s) : s[i] = "."
    THEN CHOOSE i \in 1..Len(s) : s[i] = "." /\ \A j \in 1..(i - 1) : s[j] # "."
    ELSE 0

\* 10^k - F for the k fraction digits fp of value F > 0, least digit first
TenPowerMinus(fp) ==
    LET k == Len(fp)
        last == CHOOSE i \in 1..k : fp[i] # "0" /\ \A j \in (i + 1)..k : fp[j] = "0"
    IN  [i \in 1..k |->
            LET at == k + 1 - i
            IN  IF at > last THEN 0
                ELSE IF at = last THEN 10 - DigitVal(fp[at])
                ELSE 9 - DigitVal(fp[at])]

\* c times the number of digits ds (least digit first), plus carry
RECURSIVE Times(_, _, _)
Times(ds, c, carry) ==
    IF ds = <<>>
    THEN (IF carry = 0 THEN <<>> ELSE <<carry % 10>> \o Times(<<>>, c, carry \div 10))
    ELSE LET d == c * Head(ds) + carry
         IN  <<d % 10>> \o Times(Tail(ds), c, d \div 10)

\* 2^m times the number of digits ds, sixteen doublings at a time
RECURSIVE TimesPowerOfTwo(_, _)
TimesPowerOfTwo(ds, m) ==
    IF m = 0 THEN ds
    ELSE LET step == IF m > 16 THEN 16 ELSE m
             product == Times(ds, 2 ^ step, 0)
         IN  TimesPowerOfTwo(product, m - step)

\* the number of digits ds (least digit first) is at most 10^k
AtMostTenPower(ds, k) ==
    /\ \A i \in 1..Len(ds) : i > k + 1 => ds[i] = 0
    /\ \/ Len(ds) <= k
       \/ ds[k + 1] = 0
       \/ ds[k + 1] = 1 /\ \A i \in 1..k : ds[i] = 0

\* the e with 2^e < n <= 2^(e + 1), for n >= 1
RECURSIVE BinadeBelow(_, _)
BinadeBelow(n, e) == IF n <= 2 ^ (e + 1) THEN e ELSE BinadeBelow(n, e + 1)

\* whether the double nearest to I.F is I + 1
RoundsToNext(int_part, fp) ==
    /\ \E i \in 1..Len(fp) : fp[i] # "0"
    /\ AtMostTenPower(
          TimesPowerOfTwo(TenPowerMinus(fp), 53 - BinadeBelow(int_part + 1, 0 - 1)),
          Len(fp))

\* float(t) of a stripped text: [ok, finite, neg, int_part], int_part the
\* integer part of the magnitude of the double
float_of(t) ==
    LET signed == t # <<>> /\ Head(t) \in {"+", "-"}
        neg == t # <<>> /\ Head(t) = "-"
        body == IF signed THEN Tail(t) ELSE t
        dot == DotAt(body)
        ip == IF dot = 0 THEN body ELSE SubSeq(body, 1, dot - 1)
        fp == IF dot = 0 THEN <<>> ELSE SubSeq(body, dot + 1, Len(body))
    IN  IF body \in {<<"i", "n", "f">>, <<"n", "a", "n">>}
        THEN [ok |-> TRUE, finite |-> FALSE, neg |-> neg, int_part |-> 0]
        ELSE IF AllDigits(ip) /\ AllDigits(fp) /\ Len(ip) + Len(fp) > 0
        THEN [ok |-> TRUE, finite |-> TRUE, neg |-> neg,
              int_part |-> DigitsValue(ip)
                             + (IF RoundsToNext(DigitsValue(ip), fp) THEN 1 ELSE 0)]
        ELSE [ok |-> FALSE, finite |-> FALSE, neg |-> neg, int_part |-> 0]

as_int_cents(v) ==
    IF v = None \/ Strip(v.v) = <<>> THEN None
    ELSE LET f == float_of(Strip(v.v))
         IN  IF f.ok /\ f.finite
             THEN IntV(IF f.neg THEN 0 - f.int_part ELSE f.int_part)
             ELSE None

---------------------------------------------------------------------------
(* build_product_payload_simple.  a is the record of its arguments.  Each  *)
(* block of the function is an operator that yields Raise(..) where the    *)
(* block raises ValueError and Return(..) with what it computes otherwise. *)

ERR_NAME == "Name minimal 3 karakter."
ERR_PLAN == "Plan tidak valid (one_time | month | year)."
ERR_PRICE_TYPE == "Tipe harga tidak valid (fixed | custom | free)."
ERR_FIXED == "Fixed price (cents) wajib diisi, min 50."
ERR_CUSTOM_LOW ==
    "Custom price: minimum/maximum/preset harus >= 50 bila diisi."
ERR_CUSTOM_ORDER == "Custom price: minimum tidak boleh > maximum."
ERR_ONE_TIME == "Produk one-time TIDAK boleh punya metered price."
ERR_METER_ID == "meter_id harus UUID valid."
ERR_UNIT == "unit_amount (cents) wajib diisi untuk metered."
ERR_CAP == "cap_amount tidak boleh negatif."
ERR_ORG == "organization_id harus UUID valid."

ValueError(err) == Raise("ValueError", err)

\* the least amount of a fixed or custom price, in cents
MinCents == 50

\* not name or len(name.strip()) < 3
MinNameLen == 3

name_too_short(a) == a.name = <<>> \/ Len(Strip(a.name)) < MinNameLen

\* plan -> recurring_interval
recurring_interval_of(a) ==
    IF a.plan = "one_time" THEN Return(None)
    ELSE IF a.plan \in {"month", "year"} THEN Return(Str(a.plan))
    ELSE ValueError(ERR_PLAN)

\* a dict with key k set to the value of the optional integer c, if any
SetIfInt(k, c) == IF c # None THEN k :> c.v ELSE <<>>

fixed_price(a) ==
    LET cents == as_int_cents(a.fixed_amount)
    IN  IF cents = None \/ cents.v < MinCents THEN ValueError(ERR_FIXED)
        ELSE Return([amount_type |-> "fixed", price_currency |-> "usd",
                     price_amount |-> cents.v])

custom_price(a) ==
    LET min_c == as_int_cents(a.custom_min)
        max_c == as_int_cents(a.custom_max)
        preset_c == as_int_cents(a.custom_preset)
    IN  IF \/ (min_c # None /\ min_c.v < MinCents)
           \/ (max_c # None /\ max_c.v < MinCents)
           \/ (preset_c # None /\ preset_c.v < MinCents)
        THEN ValueError(ERR_CUSTOM_LOW)
        ELSE IF min_c # None /\ max_c # None /\ min_c.v > max_c.v
        THEN ValueError(ERR_CUSTOM_ORDER)
        ELSE Return([amount_type |-> "custom", price_currency |-> "usd"]
                      @@ SetIfInt("minimum_amount", min_c)
                      @@ SetIfInt("maximum_amount", max_c)
                      @@ SetIfInt("preset_amount", preset_c))

\* the base price appended to prices
base_price(a) ==
    IF a.price_type \notin {"fixed", "custom", "free"}
    THEN ValueError(ERR_PRICE_TYPE)
    ELSE IF a.price_type = "fixed" THEN fixed_price(a)
    ELSE IF a.price_type = "custom" THEN custom_price(a)
    ELSE Return([amount_type |-> "free"])

\* a metered block that does not look at the plan
metered_prices_any_plan(a, recurring_interval) ==
    IF ~a.enable_metered THEN Return(<<>>)
    ELSE IF a.meter_id = <<>> \/ ~is_uuid(a.meter_id)
    THEN ValueError(ERR_METER_ID)
    ELSE IF a.unit_amount = None \/ Strip(a.unit_amount.v) = <<>>
    THEN ValueError(ERR_UNIT)
    ELSE LET cap == as_int_cents(a.cap_amount)
         IN  IF cap # None /\ cap.v < 0 THEN ValueError(ERR_CAP)
             ELSE Return(<<[amount_type |-> "metered_unit",
                            meter_id |-> Strip(a.meter_id),
                            price_currency |-> "usd",
                            unit_amount |-> Strip(a.unit_amount.v)]
                             @@ SetIfInt("cap_amount", cap)>>)

\* the metered block: the prices it appends (none, or the metered one)
metered_prices(a, recurring_interval) ==
    IF ~a.enable_metered THEN Return(<<>>)
    ELSE IF recurring_interval = None THEN ValueError(ERR_ONE_TIME)
    ELSE IF a.meter_id = <<>> \/ ~is_uuid(a.meter_id)
    THEN ValueError(ERR_METER_ID)
    ELSE IF a.unit_amount = None \/ Strip(a.unit_amount.v) = <<>>
    THEN ValueError(ERR_UNIT)
    ELSE LET cap == as_int_cents(a.cap_amount)
         IN  IF cap # None /\ cap.v < 0 THEN ValueError(ERR_CAP)
             ELSE Return(<<[amount_type |-> "metered_unit",
                            meter_id |-> Strip(a.meter_id),
                            price_currency |-> "usd",
                            unit_amount |-> Strip(a.unit_amount.v)]
                             @@ SetIfInt("cap_amount", cap)>>)

\* an organization block that attaches whatever is given
with_organization_unchecked(a, payload) ==
    IF a.org_id # <<>> /\ Strip(a.org_id) # <<>>
    THEN Return(payload @@ [organization_id |-> Strip(a.org_id)])
    ELSE Return(payload)

\* the organization block: the payload, with organization_id when given
with_organization(a, payload) ==
    IF a.org_id # <<>> /\ Strip(a.org_id) # <<>>
    THEN IF ~is_uuid(a.org_id) THEN ValueError(ERR_ORG)
         ELSE Return(payload @@ [organization_id |-> Strip(a.org_id)])
    ELSE Return(payload)

\* a builder that puts the metered price before the base price
build_product_payload_metered_first(a) ==
    LET ri == recurring_interval_of(a)
        bp == base_price(a)
        mp == metered_prices(a, ri.value)
    IN  IF name_too_short(a) THEN ValueError(ERR_NAME)
        ELSE IF ri.kind = "raise" THEN ri
        ELSE IF bp.kind = "raise" THEN bp
        ELSE IF mp.kind = "raise" THEN mp
        ELSE with_organization(a,
                [name |-> Strip(a.name),
                 description |-> IF a.description # <<>>
                                 THEN Str(a.description) ELSE None,
                 recurring_interval |-> ri.value,
                 prices |-> mp.value \o <<bp.value>>])

\* build_product_payload_simple: the blocks in the order of the source
build_product_payload_simple(a) ==
    LET ri == recurring_interval_of(a)
        bp == base_price(a)
        mp == metered_prices(a, ri.value)
    IN  IF name_too_short(a) THEN ValueError(ERR_NAME)
        ELSE IF ri.kind = "raise" THEN ri
        ELSE IF bp.kind = "raise" THEN bp
        ELSE IF mp.kind = "raise" THEN mp
        ELSE with_organization(a,
                [name |-> Strip(a.name),
                 description |-> IF a.description # <<>>
                                 THEN Str(a.description) ELSE None,
                 recurring_interval |-> ri.value,
                 prices |-> <<bp.value>> \o mp.value])

---------------------------------------------------------------------------
(* The arguments the builder is checked on.                                *)

Pad(k) == [i \in 1..k |-> " "]

Rep(c, n) == [i \in 1..n |-> c]

Padded(s) == {Pad(p) \o s \o Pad(p) : p \in 0..MaxPad}

RECURSIVE Digits(_)
Digits(n) ==
    IF n < 10 THEN <<DigitChars[n + 1]>>
    ELSE Digits(n \div 10) \o <<DigitChars[(n % 10) + 1]>>

Names == UNION {Padded(Rep("a", n)) : n \in 0..MaxNameLen}

Plans == {"one_time", "month", "year", "week"}

Hex(n) == SubSeq(<<"1", "2", "3", "4", "5", "6", "7", "8", "9", "a", "b", "C">>, 1, n)

UuidWith(version, variant) ==
    Hex(8) \o <<"-">> \o Hex(4) \o <<"-", version>> \o Hex(3)
        \o <<"-", variant>> \o Hex(3) \o <<"-">> \o Hex(12)

GoodUuid == UuidWith("4", "8")
OtherUuid == UuidWith("1", "B")
NotAUuid == <<"n", "o", "t", "-", "a", "-", "u", "u", "i", "d">>

BadIds ==
    {NotAUuid, UuidWith("6", "8"), UuidWith("4", "c"), GoodUuid \o <<"0">>,
     Tail(GoodUuid), <<"x">> \o Tail(GoodUuid)}

\* an id argument: empty, blank, a UUID (padded or not) or not a UUID
Ids == {<<>>} \cup Padded(<<" ">>) \cup Padded(GoodUuid) \cup {OtherUuid} \cup BadIds

\* texts float() does not read, and inf / nan, which int() does not
NonNumbers ==
    {<<"x", "y", "z">>, <<"1", "2", "x">>, <<"-">>, <<".">>, <<"1", ".", "2", ".", "3">>,
     <<"5", " ", "0">>, <<"-", "-", "5">>, <<"i", "n", "f">>, <<"-", "i", "n", "f">>,
     <<"n", "a", "n">>}

\* the decimal literals of n: n, +n, -n, with and without a fraction
Literals(n) ==
    {sign \o Digits(n) \o frac :
        sign \in {<<>>, <<"-">>, <<"+">>},
        frac \in {<<>>, <<".">>, <<".", "0">>, <<".", "9">>, <<".", "9", "9", "9">>}}

AmountNumbers == {0, 1, MinCents - 1, MinCents, MinCents + 1, 100, 500, 999}

\* an amount argument: None, blank, a number or not a number
Amounts ==
    {None} \cup {Str(s) : s \in Padded(<<>>) \cup Padded(<<" ">>)}
        \cup {Str(s) : s \in NonNumbers}
        \cup {Str(s) : s \in UNION {Padded(t) : t \in UNION {Literals(n) : n \in AmountNumbers}}}
        \cup {Str(<<".", "5">>), Str(<<"0", "5", "0">>)}
        \cup {Str(Digits(MinCents - 1) \o <<".">> \o Rep("9", n)) : n \in {13, 17}}

FewAmounts ==
    {None, Str(<<>>), Str(<<"x", "y", "z">>), Str(<<"-", "1">>), Str(<<"0">>)}
        \cup {Str(Digits(n)) : n \in {MinCents - 1, MinCents, 100, 500}}
        \cup {Str(s) : s \in Padded(<<"1", "0", "0", ".", "9">>)}

UnitAmounts ==
    {None} \cup {Str(s) : s \in {<<>>} \cup Padded(<<" ">>) \cup Padded(<<"0", ".", "0", "5">>)
                                  \cup {<<"5">>, <<"x">>}}

PriceArgs(type, fixed, min, max, preset) ==
    [price_type |-> type, fixed_amount |-> fixed, custom_min |-> min,
     custom_max |-> max, custom_preset |-> preset]

MeterArgs(enable, meter, unit, cap) ==
    [enable_metered |-> enable, meter_id |-> meter, unit_amount |-> unit,
     cap_amount |-> cap]

\* every price type with every fixed amount, and custom with every few bounds
AllPrices ==
    {PriceArgs("fixed", f, None, None, None) : f \in Amounts}
        \cup {PriceArgs("custom", f, mn, mx, ps) :
                f \in {None, Str(<<"9", "9", "9">>)}, mn \in FewAmounts,
                mx \in FewAmounts, ps \in FewAmounts}
        \cup {PriceArgs(t, f, None, None, None) :
                t \in {"free", "tiered", ""}, f \in {None, Str(<<"0">>)}}

SomePrices ==
    {PriceArgs("fixed", Str(<<"9", "9", "9">>), None, None, None),
     PriceArgs("fixed", Str(<<"4", "9">>), None, None, None),
     PriceArgs("fixed", None, Str(<<"5", "0">>), None, None),
     PriceArgs("custom", None, None, None, None),
     PriceArgs("custom", None, Str(<<"5", "0", "0">>), Str(<<"1", "0", "0">>), None),
     PriceArgs("custom", Str(<<"0">>), None, None, Str(<<"7">>)),
     PriceArgs("custom", None, None, None, Str(<<"x", "y", "z">>)),
     PriceArgs("free", None, None, None, None),
     PriceArgs("tiered", Str(<<"9", "9", "9">>), None, None, None)}

MeterOff == MeterArgs(FALSE, <<>>, None, None)
MeterOn == MeterArgs(TRUE, GoodUuid, Str(<<"0", ".", "0", "5">>), None)

AllMeters ==
    {MeterArgs(TRUE, m, u, c) : m \in Ids, u \in UnitAmounts, c \in FewAmounts}
        \cup {MeterArgs(TRUE, GoodUuid, Str(<<"5">>), c) : c \in Amounts}
        \cup {MeterArgs(FALSE, m, u, c) :
                m \in {<<>>, NotAUuid, GoodUuid}, u \in {None, Str(<<"5">>)},
                c \in {None, Str(<<"-", "1">>)}}

SomeMeters ==
    {MeterOff, MeterOn,
     MeterArgs(FALSE, NotAUuid, None, Str(<<"-", "1">>)),
     MeterArgs(TRUE, GoodUuid, Str(<<"5">>), Str(<<"1", "0", "0">>)),
     MeterArgs(TRUE, NotAUuid, Str(<<"5">>), None),
     MeterArgs(TRUE, GoodUuid, Str(<<" ">>), None),
     MeterArgs(TRUE, GoodUuid, Str(<<"5">>), Str(<<"-", "1">>)),
     MeterArgs(TRUE, GoodUuid, Str(<<"5">>), Str(<<"x", "y", "z">>)),
     MeterArgs(TRUE, <<>>, None, Str(<<"-", "1">>))}

SomeOrgs == {<<>>, <<" ">>, GoodUuid, NotAUuid}

Descriptions == {<<>>, <<"h", "i">>}

Args(name, description, plan, price, meter, org) ==
    [name |-> name, description |-> description, plan |-> plan,
     price_type |-> price.price_type, fixed_amount |-> price.fixed_amount,
     custom_min |-> price.custom_min, custom_max |-> price.custom_max,
     custom_preset |-> price.custom_preset, org_id |-> org,
     enable_metered |-> meter.enable_metered, meter_id |-> meter.meter_id,
     unit_amount |-> meter.unit_amount, cap_amount |-> meter.cap_amount]

FreePrice == PriceArgs("free", None, None, None, None)

\* every combination of a few values per rule
RuleCombinations(a) ==
    \E n \in Names, pl \in Plans, pr \in SomePrices, me \in SomeMeters, o \in SomeOrgs :
        a = Args(n, <<>>, pl, pr, me, o)

\* the price rule's arguments in full
PriceInputs(a) ==
    \E pl \in {"one_time", "month"}, pr \in AllPrices, me \in {MeterOff, MeterOn} :
        a = Args(Rep("a", MinNameLen), <<>>, pl, pr, me, <<>>)

\* the metered block's arguments in full
MeterInputs(a) ==
    \E pl \in {"one_time", "year"}, me \in AllMeters :
        a = Args(Rep("a", MinNameLen), <<>>, pl, FreePrice, me, <<>>)

\* the organization rule's arguments in full
OrgInputs(a) ==
    \E d \in Descriptions, pl \in {"one_time", "year"}, me \in {MeterOff, MeterOn}, o \in Ids :
        a = Args(Rep("a", MinNameLen), d, pl, FreePrice, me, o)

Inputs(a) == RuleCombinations(a) \/ PriceInputs(a) \/ MeterInputs(a) \/ OrgInputs(a)

---------------------------------------------------------------------------
(* The builder's specification: the arguments are drawn, then the builder  *)
(* is applied to them.                                                     *)

\* no operation function has been called
OperationsIdle ==
    /\ op = None
    /\ pending = None
    /\ calls = 0
    /\ out = NotCalled

\* the gateway's variables while the builder is checked
GatewayIdle ==
    /\ polar_api = None
    /\ json_error_is_request_exception = TRUE
    /\ call = None
    /\ ret = NotCalled
    /\ shown = NotCalled

InitBuilder ==
    /\ Inputs(args)
    /\ bret = NotCalled
    /\ GatewayIdle
    /\ OperationsIdle

BuildProductPayload ==
    /\ bret = NotCalled
    /\ bret' = build_product_payload_simple(args)
    /\ UNCHANGED <<args, gatewayVars, operationVars>>

NextBuilder == BuildProductPayload

SpecBuilder == InitBuilder /\ [][NextBuilder]_vars

---------------------------------------------------------------------------
(* The request gateway: PolarAPI and _make_request.                        *)

Dict(d) == [tag |-> "dict", v |-> d]
List(l) == [tag |-> "list", v |-> l]

PolarAPI(access_token, sandbox) ==
    [access_token |-> access_token,
     base_url |-> IF sandbox THEN "https://sandbox-api.polar.sh/v1"
                  ELSE "https://api.polar.sh/v1",
     headers |-> [Authorization |-> <<"Bearer ">> \o access_token,
                  ContentType |-> "application/json"]]

LowerLetters == <<"d", "e", "g", "l", "o", "p", "s", "t", "u">>
UpperLetters == <<"D", "E", "G", "L", "O", "P", "S", "T", "U">>

\* str.upper(), on the letters of the model's methods
Upper(s) ==
    [i \in 1..Len(s) |->
        IF \E k \in 1..Len(LowerLetters) : LowerLetters[k] = s[i]
        THEN UpperLetters[CHOOSE k \in 1..Len(LowerLetters) : LowerLetters[k] = s[i]]
        ELSE s[i]]

GET == <<"G", "E", "T">>
POST == <<"P", "O", "S", "T">>
PUT == <<"P", "U", "T">>
DELETE == <<"D", "E", "L", "E", "T", "E">>

\* the verbs _make_request has a branch for
Supported(method) == Upper(method) \in {GET, POST, PUT, DELETE}

\* Response.raise_for_status() raises HTTPError for 400..599
RaisesForStatus(status_code) == 400 <= status_code /\ status_code < 600

\* the response bodies of the model that are JSON texts, with what
\* json.loads makes of them; every other body is not JSON
JsonTexts ==
    {[text |-> <<"{", "}">>, value |-> Dict(<<>>)],
     [text |-> <<"{", "\"id\"", ":", "1", "}">>, value |-> Dict([id |-> IntV(1)])],
     [text |-> <<"{", "\"error\"", ":", "\"x\"", "}">>,
      value |-> Dict([error |-> Str(<<"x">>)])],
     [text |-> <<"[", "]">>, value |-> List(<<>>)],
     [text |-> <<"null">>, value |-> None]}

NotJsonTexts == {<<"<", "h", "t", "m", "l", ">">>}

IsJson(text) == \E j \in JsonTexts : j.text = text

\* Response.json(): the decoded body, or JSONDecodeError
response_json(text) ==
    IF IsJson(text)
    THEN Return((CHOOSE j \in JsonTexts : j.text = text).value)
    ELSE Raise("JSONDecodeError", "Expecting value")

\* the dict the except clause returns for the RequestException e:
\* getattr(e.response, ..., None) is None when e.response is None
error_record(description, response) ==
    Dict([error |-> Str(<<description>>),
          status_code |-> IF response = None THEN None ELSE IntV(response.status_code),
          body |-> IF response = None THEN None ELSE Str(response.text)])

\* _make_request(method, endpoint, data) where the HTTP call ends as wire:
\* a RequestException without response, or a response
make_request(method, wire, json_error_is_caught) ==
    IF ~Supported(method)
    THEN Return(Dict([error |-> Str(<<"Unsupported method ">> \o method)]))
    ELSE IF wire.kind = "exception"
    THEN Return(error_record(wire.exc, None))
    ELSE IF RaisesForStatus(wire.status_code)
    THEN Return(error_record("HTTPError", wire))
    ELSE IF Strip(wire.text) = <<>>
    THEN Return(Dict([status |-> IntV(wire.status_code)]))
    ELSE LET decoded == response_json(wire.text)
         IN  IF decoded.kind = "return" THEN decoded
             ELSE IF json_error_is_caught
             THEN Return(error_record(decoded.exc, None))
             ELSE decoded

\* dict.get(key): None when the key is not set
Get(d, key) == IF key \in DOMAIN d THEN d[key] ELSE None

\* format_json_output: the error line for a dict with an "error" key,
\* json.dumps of the data otherwise
format_json_output(data) ==
    IF data.tag = "dict" /\ "error" \in DOMAIN data.v
    THEN [kind |-> "error", error |-> data.v.error,
          status |-> Get(data.v, "status_code"),
          response_body |-> IF Get(data.v, "body") \notin {None, Str(<<>>)}
                            THEN Get(data.v, "body") ELSE None]
    ELSE [kind |-> "json", data |-> data]

---------------------------------------------------------------------------
(* The gateway's specification: any sequence of calls of _make_request on  *)
(* an initialized client, each result shown with format_json_output.       *)

Methods ==
    {GET, POST, PUT, DELETE, <<"g", "e", "t">>, <<"P", "A", "T", "C", "H">>, <<>>}

Statuses == {200, 204, 304, 404, 500}

Bodies ==
    {<<>>, <<" ">>} \cup {j.text : j \in JsonTexts} \cup NotJsonTexts

Wires ==
    {[kind |-> "exception", exc |-> e] : e \in {"ConnectionError", "Timeout"}}
        \cup {[kind |-> "response", status_code |-> st, text |-> b] :
                st \in Statuses, b \in Bodies}

Token == <<"t", "o", "k">>

\* the builder's variables while the gateway is checked
BuilderIdle ==
    /\ args = None
    /\ bret = NotCalled

Init ==
    /\ BuilderIdle
    /\ OperationsIdle
    /\ polar_api = PolarAPI(Token, TRUE)
    /\ json_error_is_request_exception \in BOOLEAN
    /\ call = None
    /\ ret = NotCalled
    /\ shown = NotCalled

MakeRequest(method, wire) ==
    /\ polar_api # None
    /\ call' = [method |-> method, wire |-> wire, sent |-> Supported(method)]
    /\ ret' = make_request(method, wire, json_error_is_request_exception)
    /\ shown' = NotCalled
    /\ UNCHANGED <<polar_api, json_error_is_request_exception, builderVars, operationVars>>

FormatJsonOutput ==
    /\ ret.kind = "return"
    /\ shown = NotCalled
    /\ shown' = format_json_output(ret.value)
    /\ UNCHANGED <<polar_api, json_error_is_request_exception, call, ret, builderVars,
                   operationVars>>

Next ==
    \/ \E method \in Methods, wire \in Wires : MakeRequest(method, wire)
    \/ FormatJsonOutput

Spec == Init /\ [][Next]_vars

---------------------------------------------------------------------------
(* The operation functions: initialize_polar_api and the functions the     *)
(* interface calls.  A function that contacts the remote API blocks on one *)
(* outbound call, so each is modelled in two halves: what it does up to    *)
(* that call (its checks, the value it returns without calling, the call   *)
(* it issues), and what it returns once the call has ended.                *)

\* a str, as the pieces it is written from (literals and interpolations)
Text(pieces) == [tag |-> "text", v |-> pieces]
\* a tuple of returned values
Tuple(items) == [tag |-> "tuple", v |-> items]
\* the str format_json_output returns
Formatted(f) == [tag |-> "formatted", v |-> f]
\* the str json.dumps returns
Dumped(value) == [tag |-> "json", v |-> value]

NOT_INITIALIZED == "Please initialize API connection first"
\* the cross mark some messages start with
CROSS == "[x] "

\* requests.post(..., timeout=45)
PostTimeout == 45

\* a function returns value without calling out
Returns(value) == [request |-> None, out |-> Return(value)]
\* a function issues the outbound call request and blocks on it
Calls(request) == [request |-> request, out |-> NotCalled]
\* what a function that declares "global polar_api" does, and the client
\* it leaves stored there
Stores(client, started) ==
    [client |-> client, request |-> started.request, out |-> started.out]

\* requests.get/post/put/delete(url, headers=..., params= or json=data);
\* timeout is None where the call names none
Request(by, method, url, headers, data, timeout) ==
    [by |-> by, method |-> method, url |-> url, headers |-> headers,
     data |-> data, timeout |-> timeout]

\* _make_request up to its outbound call: the URL joined from base_url and
\* endpoint, the client's headers, no timeout; an unsupported method
\* returns its error dict without a call
make_request_call(self, method, endpoint, data) ==
    IF Supported(method)
    THEN Calls(Request("_make_request", Upper(method),
                             <<self.base_url, "/">> \o endpoint,
                             self.headers, data, None))
    ELSE Returns(make_request(method, None, TRUE).value)

\* {"organization_id": organization_id} if organization_id else {}
OrgParams(organization_id) ==
    IF organization_id # "" THEN Dict([organization_id |-> organization_id])
    ELSE Dict(<<>>)

list_organizations(self) == make_request_call(self, GET, <<"organizations/">>, None)

get_organization(self, organization_id) ==
    make_request_call(self, GET, <<"organizations/", organization_id, "/">>, None)

list_products(self, organization_id) ==
    make_request_call(self, GET, <<"products/">>, OrgParams(organization_id))

get_product(self, product_id) ==
    make_request_call(self, GET, <<"products/", product_id, "/">>, None)

create_checkout(self, product_ids, success_url, customer_email) ==
    make_request_call(self, POST, <<"checkouts/">>,
        Dict([products |-> product_ids, success_url |-> success_url]
             @@ (IF customer_email # "" THEN [customer_email |-> customer_email]
                 ELSE <<>>)))

list_subscriptions(self, organization_id) ==
    make_request_call(self, GET, <<"subscriptions/">>, OrgParams(organization_id))

get_subscription(self, subscription_id) ==
    make_request_call(self, GET, <<"subscriptions/", subscription_id, "/">>, None)

list_orders(self, organization_id) ==
    make_request_call(self, GET, <<"orders/">>, OrgParams(organization_id))

get_order(self, order_id) ==
    make_request_call(self, GET, <<"orders/", order_id, "/">>, None)

list_benefits(self, organization_id) ==
    make_request_call(self, GET, <<"benefits/">>, OrgParams(organization_id))

create_benefit(self, organization_id, type, description, properties) ==
    make_request_call(self, POST, <<"benefits/">>,
        Dict([organization_id |-> organization_id, type |-> type,
              description |-> description, properties |-> properties]))

list_customers(self, organization_id) ==
    make_request_call(self, GET, <<"customers/">>, OrgParams(organization_id))

list_webhook_endpoints(self, organization_id) ==
    make_request_call(self, GET, <<"webhooks/endpoints/">>, OrgParams(organization_id))

PolarAPI_create_webhook_endpoint(self, organization_id, url, events) ==
    make_request_call(self, POST, <<"webhooks/endpoints/">>,
        Dict([organization_id |-> organization_id, url |-> url, events |-> events]))

\* initialize_polar_api with the new client kept in a local variable
initialize_polar_api_not_stored(client, access_token, use_sandbox) ==
    IF access_token = <<>>
    THEN Stores(client, Returns(Text(<<"Access token is required">>)))
    ELSE Stores(client, list_organizations(PolarAPI(access_token, use_sandbox)))

\* initialize_polar_api up to the connectivity check: an empty token
\* returns at once; otherwise the new client is stored in polar_api and
\* list_organizations is called on it
initialize_polar_api(client, access_token, use_sandbox) ==
    IF access_token = <<>>
    THEN Stores(client, Returns(Text(<<"Access token is required">>)))
    ELSE Stores(PolarAPI(access_token, use_sandbox),
                list_organizations(PolarAPI(access_token, use_sandbox)))

\* a function that returns format_json_output of what the client's method
\* returns: the method's call, or the formatted value when it made none
Formats(started) ==
    IF started.request # None THEN started
    ELSE Returns(Formatted(format_json_output(started.out.value)))

\* get_organizations falling back to a sandbox client without token
get_organizations_default_client(client) ==
    IF client = None THEN Formats(list_organizations(PolarAPI(<<>>, TRUE)))
    ELSE Formats(list_organizations(client))

get_organizations(client) ==
    IF client = None THEN Returns(Text(<<NOT_INITIALIZED>>))
    ELSE Formats(list_organizations(client))

get_organization_details(client, org_id) ==
    IF client = None THEN Returns(Text(<<" ", NOT_INITIALIZED>>))
    ELSE IF org_id = "" THEN Returns(Text(<<"Organization ID is required">>))
    ELSE Formats(get_organization(client, org_id))

get_products(client, org_id) ==
    IF client = None THEN Returns(Text(<<NOT_INITIALIZED>>))
    ELSE Formats(list_products(client, org_id))

get_product_details(client, product_id) ==
    IF client = None THEN Returns(Text(<<NOT_INITIALIZED>>))
    ELSE IF product_id = "" THEN Returns(Text(<<"Product ID is required">>))
    ELSE Formats(get_product(client, product_id))

\* create_product_simple_action posting its arguments without building
create_product_simple_action_posts_first(client, a) ==
    IF client = None THEN Returns(Tuple(<<Text(<<NOT_INITIALIZED>>), Text(<<>>), Text(<<>>)>>))
    ELSE Calls(Request("create_product_simple_action", POST,
                               <<client.base_url, "/products/">>,
                               client.headers @@ [Accept |-> "application/json"],
                               a, IntV(PostTimeout)))

\* the first failure of the builder is returned as a triple; a payload
\* built is posted to /products/ with a timeout, outside _make_request
create_product_simple_action(client, a) ==
    IF client = None THEN Returns(Tuple(<<Text(<<NOT_INITIALIZED>>), Text(<<>>), Text(<<>>)>>))
    ELSE LET built == build_product_payload_simple(a)
         IN  IF built.kind = "raise"
             THEN Returns(Tuple(<<Text(<<built.msg>>), Text(<<>>), Text(<<>>)>>))
             ELSE Calls(Request("create_product_simple_action", POST,
                                        <<client.base_url, "/products/">>,
                                        client.headers @@ [Accept |-> "application/json"],
                                        built.value, IntV(PostTimeout)))

\* the dry run: the payload dumped, never a call
generate_curl_simple_action(client, a) ==
    LET built == build_product_payload_simple(a)
    IN  IF built.kind = "raise"
        THEN Returns(Tuple(<<Text(<<CROSS, built.msg>>), Text(<<>>), Text(<<>>)>>))
        ELSE Returns(Tuple(<<Text(<<"DRY RUN - cURL generated only">>),
                                     Dumped(built.value)>>))

\* s.split(",")
RECURSIVE Split(_)
Split(s) ==
    IF \E i \in 1..Len(s) : s[i] = ","
    THEN LET i == CHOOSE j \in 1..Len(s) : s[j] = "," /\ \A k \in 1..(j - 1) : s[k] # ","
         IN  <<SubSeq(s, 1, i - 1)>> \o Split(SubSeq(s, i + 1, Len(s)))
    ELSE <<s>>

\* [x.strip() for x in s.split(",") if x.strip()]
StrippedItems(s) ==
    LET parts == Split(s)
        stripped == [i \in 1..Len(parts) |-> Strip(parts[i])]
    IN  SelectSeq(stripped, LAMBDA x : x # <<>>)

create_checkout_session(client, product_ids, success_url, customer_email) ==
    IF client = None THEN Returns(Text(<<NOT_INITIALIZED>>))
    ELSE IF product_ids = <<>> \/ success_url = ""
    THEN Returns(Text(<<"Product IDs and success URL are required">>))
    ELSE IF StrippedItems(product_ids) = <<>>
    THEN Returns(Text(<<"At least one product ID is required">>))
    ELSE Formats(create_checkout(client, StrippedItems(product_ids), success_url,
                                 customer_email))

get_subscriptions(client, org_id) ==
    IF client = None THEN Returns(Text(<<NOT_INITIALIZED>>))
    ELSE Formats(list_subscriptions(client, org_id))

get_subscription_details(client, subscription_id) ==
    IF client = None THEN Returns(Text(<<NOT_INITIALIZED>>))
    ELSE IF subscription_id = ""
    THEN Returns(Text(<<"Subscription ID is required">>))
    ELSE Formats(get_subscription(client, subscription_id))

get_orders(client, org_id) ==
    IF client = None THEN Returns(Text(<<CROSS, NOT_INITIALIZED>>))
    ELSE Formats(list_orders(client, org_id))

get_order_details(client, order_id) ==
    IF client = None THEN Returns(Text(<<CROSS, NOT_INITIALIZED>>))
    ELSE IF order_id = "" THEN Returns(Text(<<CROSS, "Order ID is required">>))
    ELSE Formats(get_order(client, order_id))

get_benefits(client, org_id) ==
    IF client = None THEN Returns(Text(<<CROSS, NOT_INITIALIZED>>))
    ELSE Formats(list_benefits(client, org_id))

create_new_benefit(client, org_id, benefit_type, description, properties_json) ==
    IF client = None THEN Returns(Text(<<CROSS, NOT_INITIALIZED>>))
    ELSE IF org_id = "" \/ benefit_type = "" \/ description = ""
    THEN Returns(Text(<<CROSS, "Organization ID, type, and description are required">>))
    ELSE IF properties_json # <<>> /\ ~IsJson(properties_json)
    THEN Returns(Text(<<CROSS, "Invalid JSON in properties field">>))
    ELSE Formats(create_benefit(client, org_id, benefit_type, description,
                    IF properties_json = <<>> THEN Dict(<<>>)
                    ELSE response_json(properties_json).value))

get_customers(client, org_id) ==
    IF client = None THEN Returns(Text(<<CROSS, NOT_INITIALIZED>>))
    ELSE Formats(list_customers(client, org_id))

get_webhook_endpoints(client, org_id) ==
    IF client = None THEN Returns(Text(<<CROSS, NOT_INITIALIZED>>))
    ELSE Formats(list_webhook_endpoints(client, org_id))

create_webhook_endpoint(client, org_id, url, events) ==
    IF client = None THEN Returns(Text(<<CROSS, NOT_INITIALIZED>>))
    ELSE IF org_id = "" \/ url = "" \/ events = <<>>
    THEN Returns(Text(<<CROSS, "Organization ID, URL, and events are required">>))
    ELSE Formats(PolarAPI_create_webhook_endpoint(client, org_id, url,
                                                  StrippedItems(events)))

\* initialize_polar_api after the connectivity check returned r, or left
\* _make_request with an exception: every exception is caught
initialize_polar_api_result(r) ==
    IF r.kind = "raise"
    THEN Return(Text(<<"Error initializing API: ", r.msg>>))
    ELSE IF r.value = None
    THEN Return(Text(<<"Error initializing API: ",
                       "argument of type 'NoneType' is not iterable">>))
    ELSE IF r.value.tag = "dict" /\ "error" \in DOMAIN r.value.v
    THEN Return(Text(<<"ailed to connect: ", r.value.v.error,
                       " | body: ", Get(r.value.v, "body")>>))
    ELSE Return(Text(<<"Connected to Polar">>))

\* a function that formats what _make_request returned; an exception that
\* left _make_request leaves the function too
formats_result(r) ==
    IF r.kind = "raise" THEN r
    ELSE Return(Formatted(format_json_output(r.value)))

\* create_product_simple_action after its post ended as wire: the status
\* and the dumped body (the text as {"raw": ...} when it is not JSON), or
\* the request error; the reason phrase of the status line is left out
create_product_simple_action_result(wire) ==
    IF wire.kind = "exception"
    THEN Return(Tuple(<<Text(<<CROSS, "Request error: ", wire.exc>>),
                        Text(<<>>), Text(<<>>)>>))
    ELSE Return(Tuple(<<Text(Digits(wire.status_code)),
                        Dumped(IF IsJson(wire.text) THEN response_json(wire.text).value
                               ELSE Dict([raw |-> Str(wire.text)]))>>))

---------------------------------------------------------------------------
(* The operations' specification: from the start of the process, any       *)
(* sequence of calls of the operation functions, one at a time; a call     *)
(* that contacts the remote API blocks until the outbound call ends.       *)

Tokens == {<<>>, Token, <<" ">>}

IdArgs == {"", "id_1"}

\* comma-separated lists as typed
ListArgs == {<<>>, <<" ", ",", " ">>, <<"p", ",", " ", "q", ",">>}

PropertiesArgs == {<<>>, <<"{", "}">>, <<"<", "h", "t", "m", "l", ">">>}

\* arguments of the product form: valid ones, and ones the builder refuses
ProductArgs ==
    {Args(n, <<>>, "month", PriceArgs("fixed", Str(<<"9", "9", "9">>), None, None, None),
          me, o) :
        n \in {s \in Names : s = Rep("a", Len(s)) /\ Len(s) \in {MinNameLen - 1, MinNameLen}},
        me \in {MeterOff, MeterOn}, o \in {<<>>, NotAUuid}}

\* how an outbound call of the operations ends, when the remote answers
Replies ==
    {w \in Wires : w.kind = "exception" \/ (w.status_code \in {200, 404}
                                             /\ w.text # <<" ">>)}

\* the arguments of an operation function without parameters
NoArguments == [count |-> 0]

\* the operation function name is called with arguments (a record, by
\* parameter name) and does started;
\* silent: the remote will never answer the call it issues
Invoke(name, arguments, started, silent) ==
    /\ pending = None
    /\ op' = [name |-> name, args |-> arguments, client |-> polar_api]
    /\ polar_api' = IF "client" \in DOMAIN started THEN started.client ELSE polar_api
    /\ pending' = IF started.request = None THEN None
                  ELSE [request |-> started.request, silent |-> silent]
    /\ calls' = IF started.request = None THEN 0 ELSE 1
    /\ out' = started.out
    /\ call' = None
    /\ ret' = NotCalled
    /\ shown' = NotCalled
    /\ UNCHANGED <<json_error_is_request_exception, builderVars>>

\* the outbound call the operation is blocked on ends as wire; requests
\* raises Timeout only for a call with a timeout, and a remote that never
\* answers ends a call in no other way
Respond(wire) ==
    /\ pending # None
    /\ (wire.kind = "exception" /\ wire.exc = "Timeout") => pending.request.timeout # None
    /\ pending.silent => (wire.kind = "exception" /\ wire.exc = "Timeout")
    /\ IF pending.request.by = "_make_request"
       THEN LET r == make_request(pending.request.method, wire,
                                  json_error_is_request_exception)
                formats == op.name \notin {"initialize_polar_api", "_make_request"}
            IN  /\ call' = [method |-> pending.request.method, wire |-> wire,
                            sent |-> TRUE]
                /\ ret' = r
                /\ shown' = IF formats /\ r.kind = "return"
                            THEN format_json_output(r.value) ELSE NotCalled
                /\ out' = IF op.name = "initialize_polar_api"
                          THEN initialize_polar_api_result(r)
                          ELSE IF op.name = "_make_request" THEN r
                          ELSE formats_result(r)
       ELSE /\ out' = create_product_simple_action_result(wire)
            /\ UNCHANGED <<call, ret, shown>>
    /\ pending' = None
    /\ UNCHANGED <<polar_api, json_error_is_request_exception, op, calls, builderVars>>

InitOperations ==
    /\ BuilderIdle
    /\ OperationsIdle
    /\ polar_api = None
    /\ json_error_is_request_exception \in BOOLEAN
    /\ call = None
    /\ ret = NotCalled
    /\ shown = NotCalled

Initialize(silent) ==
    \E t \in Tokens, sb \in BOOLEAN :
        Invoke("initialize_polar_api", [access_token |-> t, use_sandbox |-> sb],
               initialize_polar_api(polar_api, t, sb), silent)

ListOperation(silent) ==
    \/ Invoke("get_organizations", NoArguments, get_organizations(polar_api), silent)
    \/ \E id \in IdArgs :
        \/ Invoke("get_products", [id |-> id], get_products(polar_api, id), silent)
        \/ Invoke("get_subscriptions", [id |-> id], get_subscriptions(polar_api, id), silent)
        \/ Invoke("get_orders", [id |-> id], get_orders(polar_api, id), silent)
        \/ Invoke("get_benefits", [id |-> id], get_benefits(polar_api, id), silent)
        \/ Invoke("get_customers", [id |-> id], get_customers(polar_api, id), silent)
        \/ Invoke("get_webhook_endpoints", [id |-> id],
                  get_webhook_endpoints(polar_api, id), silent)

DetailsOperation(silent) ==
    \E id \in IdArgs :
        \/ Invoke("get_organization_details", [id |-> id],
                  get_organization_details(polar_api, id), silent)
        \/ Invoke("get_product_details", [id |-> id],
                  get_product_details(polar_api, id), silent)
        \/ Invoke("get_subscription_details", [id |-> id],
                  get_subscription_details(polar_api, id), silent)
        \/ Invoke("get_order_details", [id |-> id], get_order_details(polar_api, id), silent)

CreateOperation(silent) ==
    \/ \E a \in ProductArgs :
        \/ Invoke("create_product_simple_action", a,
                  create_product_simple_action(polar_api, a), silent)
        \/ Invoke("generate_curl_simple_action", a,
                  generate_curl_simple_action(polar_api, a), silent)
    \/ \E ids \in ListArgs, url \in IdArgs :
        Invoke("create_checkout_session", [product_ids |-> ids, success_url |-> url],
               create_checkout_session(polar_api, ids, url, ""), silent)
    \/ \E id \in IdArgs, ps \in PropertiesArgs :
        Invoke("create_new_benefit", [id |-> id, properties_json |-> ps],
               create_new_benefit(polar_api, id, "custom", "note", ps), silent)
    \/ \E id \in IdArgs, evs \in ListArgs :
        Invoke("create_webhook_endpoint", [id |-> id, events |-> evs],
               create_webhook_endpoint(polar_api, id, "https://hook", evs), silent)

\* _make_request called on the stored client with any method
GatewayCall(silent) ==
    /\ polar_api # None
    /\ \E method \in Methods :
        Invoke("_make_request", [method |-> method],
               make_request_call(polar_api, method, <<"x">>, None), silent)

NextOperations ==
    \/ \E silent \in BOOLEAN :
        \/ Initialize(silent)
        \/ ListOperation(silent)
        \/ DetailsOperation(silent)
        \/ CreateOperation(silent)
        \/ GatewayCall(silent)
    \/ \E wire \in Replies : Respond(wire)

SpecOperations == InitOperations /\ [][NextOperations]_vars

---------------------------------------------------------------------------
(* The builder's claims.  They are stated on the arguments drawn (args)    *)
(* and on the outcome (bret) once the builder has been applied.            *)

Built == bret # NotCalled
Returned == bret.kind = "return"
Raised == bret.kind = "raise"
RaisedWith(msg) == bret.kind = "raise" /\ bret.msg = msg

\* an optional argument that is given and not blank
Supplied(v) == v # None /\ Strip(v.v) # <<>>

\* the rule an error message belongs to
RuleOf(msg) ==
    CASE msg = ERR_NAME -> "name"
      [] msg = ERR_PLAN -> "plan"
      [] msg \in {ERR_PRICE_TYPE, ERR_FIXED, ERR_CUSTOM_LOW, ERR_CUSTOM_ORDER} -> "price"
      [] msg \in {ERR_ONE_TIME, ERR_METER_ID, ERR_UNIT, ERR_CAP} -> "metered"
      [] msg = ERR_ORG -> "org"

\* each rule on its own, whatever the other arguments are; an amount
\* counts as the builder reads it (as_int_cents)
NameRuleViolated == Len(Strip(args.name)) < MinNameLen

PlanRuleViolated == args.plan \notin {"one_time", "month", "year"}

BelowMinimum(v) == as_int_cents(v) # None /\ as_int_cents(v).v < MinCents

PriceRuleViolated ==
    \/ args.price_type \notin {"fixed", "custom", "free"}
    \/ /\ args.price_type = "fixed"
       /\ as_int_cents(args.fixed_amount) = None \/ BelowMinimum(args.fixed_amount)
    \/ /\ args.price_type = "custom"
       /\ \/ BelowMinimum(args.custom_min)
          \/ BelowMinimum(args.custom_max)
          \/ BelowMinimum(args.custom_preset)
          \/ /\ as_int_cents(args.custom_min) # None
             /\ as_int_cents(args.custom_max) # None
             /\ as_int_cents(args.custom_min).v > as_int_cents(args.custom_max).v

MeteredRuleViolated ==
    /\ args.enable_metered
    /\ \/ args.plan \notin {"month", "year"}
       \/ ~is_uuid(args.meter_id)
       \/ ~Supplied(args.unit_amount)
       \/ as_int_cents(args.cap_amount) # None /\ as_int_cents(args.cap_amount).v < 0

OrgRuleViolated == Strip(args.org_id) # <<>> /\ ~is_uuid(args.org_id)

HasMeteredPrice(prices) ==
    \E i \in 1..Len(prices) : prices[i].amount_type = "metered_unit"

\* C2: metered pricing on a one-time plan always fails, whatever meter_id,
\* unit_amount and cap_amount are, and no payload returned has the recurring
\* interval absent together with a metered_unit price.
C2_OneTimeNeverMetered ==
    Built =>
        /\ args.enable_metered /\ args.plan = "one_time" => Raised
        /\ Returned /\ bret.value.recurring_interval = None =>
              ~HasMeteredPrice(bret.value.prices)

\* a one-time plan with metered pricing whose meter id, unit amount and cap
\* are all valid: the one-time error is raised
C2_Witness ==
    /\ Built
    /\ args.enable_metered /\ args.plan = "one_time"
    /\ is_uuid(args.meter_id) /\ Supplied(args.unit_amount)
    /\ as_int_cents(args.cap_amount) # None
    /\ RaisedWith(ERR_ONE_TIME)

\* the text is a decimal number: [sign] digits [. digits]
IsNumber(t) == float_of(t).ok /\ float_of(t).finite

\* the integer part of the decimal number t, signed: t truncated toward zero
Truncated(t) ==
    LET neg == Head(t) = "-"
        body == IF Head(t) \in {"+", "-"} THEN Tail(t) ELSE t
        ip == IF DotAt(body) = 0 THEN body ELSE SubSeq(body, 1, DotAt(body) - 1)
    IN  IF neg THEN 0 - DigitsValue(ip) ELSE DigitsValue(ip)

\* the decimal number t is below zero
IsNegative(t) ==
    /\ Head(t) = "-"
    /\ \E i \in 2..Len(t) : IsDigit(t[i]) /\ t[i] # "0"

\* the rules before the metered block pass
BeforeMeteredOk == ~NameRuleViolated /\ ~PlanRuleViolated /\ ~PriceRuleViolated

\* C6: with metered pricing on a recurring plan and a valid meter id and unit
\* amount, a supplied cap_amount that is not a number or is negative makes
\* the builder fail, and a payload built from a supplied cap_amount carries a
\* cap_amount.
C6_SuppliedCapMustParse ==
    (/\ Built /\ BeforeMeteredOk
     /\ args.enable_metered /\ args.plan \in {"month", "year"}
     /\ is_uuid(args.meter_id) /\ Supplied(args.unit_amount)
     /\ Supplied(args.cap_amount))
    => LET cap == Strip(args.cap_amount.v)
       IN  /\ ~IsNumber(cap) => Raised
           /\ IsNumber(cap) /\ IsNegative(cap) => Raised
           /\ Returned => /\ "cap_amount" \in DOMAIN bret.value.prices[2]
                          /\ bret.value.prices[2].cap_amount = Truncated(cap)

\* a supplied bound of a custom price passes: a number of at least MinCents
BoundPasses(v) ==
    /\ IsNumber(Strip(v.v))
    /\ Truncated(Strip(v.v)) >= MinCents

\* the key of a custom price is the supplied bound, or is not set when
\* none is supplied
BoundCarried(price, key, v) ==
    IF Supplied(v)
    THEN key \in DOMAIN price /\ price[key] = Truncated(Strip(v.v))
    ELSE key \notin DOMAIN price

\* C7: with price_type = custom the builder succeeds only if every supplied
\* minimum, maximum and preset is an amount >= 50 and the minimum does not
\* exceed the maximum; the payload carries each supplied bound and omits
\* only the bounds that are not supplied.
C7_CustomBoundsChecked ==
    (Built /\ Returned /\ args.price_type = "custom")
    => LET price == bret.value.prices[1]
       IN  /\ \A v \in {args.custom_min, args.custom_max, args.custom_preset} :
                 Supplied(v) => BoundPasses(v)
           /\ Supplied(args.custom_min) /\ Supplied(args.custom_max) =>
                 Truncated(Strip(args.custom_min.v)) <= Truncated(Strip(args.custom_max.v))
           /\ BoundCarried(price, "minimum_amount", args.custom_min)
           /\ BoundCarried(price, "maximum_amount", args.custom_max)
           /\ BoundCarried(price, "preset_amount", args.custom_preset)

\* the price rule as stated: a fixed amount is a number that truncates to
\* at least 50; every supplied bound of a custom price is an amount of at
\* least 50, and the minimum does not exceed the maximum
PriceRuleStatedViolated ==
    \/ args.price_type \notin {"fixed", "custom", "free"}
    \/ /\ args.price_type = "fixed"
       /\ ~(Supplied(args.fixed_amount) /\ BoundPasses(args.fixed_amount))
    \/ /\ args.price_type = "custom"
       /\ \/ \E v \in {args.custom_min, args.custom_max, args.custom_preset} :
                Supplied(v) /\ ~BoundPasses(v)
          \/ /\ Supplied(args.custom_min) /\ BoundPasses(args.custom_min)
             /\ Supplied(args.custom_max) /\ BoundPasses(args.custom_max)
             /\ Truncated(Strip(args.custom_min.v)) > Truncated(Strip(args.custom_max.v))

\* the metered rule as stated: a recurring plan, a UUID as meter id, a unit
\* amount, and a cap that, if supplied, is a number that is not negative
MeteredRuleStatedViolated ==
    /\ args.enable_metered
    /\ \/ args.plan \notin {"month", "year"}
       \/ ~is_uuid(args.meter_id)
       \/ ~Supplied(args.unit_amount)
       \/ /\ Supplied(args.cap_amount)
          /\ \/ ~IsNumber(Strip(args.cap_amount.v))
             \/ IsNegative(Strip(args.cap_amount.v))

FirstStatedRuleViolated ==
    IF NameRuleViolated THEN "name"
    ELSE IF PlanRuleViolated THEN "plan"
    ELSE IF PriceRuleStatedViolated THEN "price"
    ELSE IF MeteredRuleStatedViolated THEN "metered"
    ELSE IF OrgRuleViolated THEN "org"
    ELSE "none"

\* C1: the rules are checked in the order name, plan, price-type fields,
\* metered block, organization id; whenever the arguments violate a rule no
\* payload is returned and the error raised is the one of the first rule
\* violated in that order, whatever later rules are violated as well; a
\* name of trimmed length < 3 gives the name error whatever the other
\* arguments are.
C1_FirstViolatedRuleWins ==
    Built =>
        /\ FirstStatedRuleViolated # "none" =>
              /\ Raised
              /\ bret.exc = "ValueError"
              /\ RuleOf(bret.msg) = FirstStatedRuleViolated
        /\ NameRuleViolated => RaisedWith(ERR_NAME)

\* C8: with price_type = fixed and every other rule passing, the builder
\* fails when fixed_amount is missing, is not a number, or truncates toward
\* zero to less than 50, and otherwise succeeds with a first price of type
\* fixed whose price_amount is the amount truncated toward zero.
C8_FixedAmountTruncated ==
    (/\ Built /\ args.price_type = "fixed"
     /\ ~NameRuleViolated /\ ~PlanRuleViolated
     /\ ~MeteredRuleViolated /\ ~OrgRuleViolated)
    => IF /\ Supplied(args.fixed_amount)
          /\ IsNumber(Strip(args.fixed_amount.v))
          /\ Truncated(Strip(args.fixed_amount.v)) >= MinCents
       THEN /\ Returned
            /\ bret.value.prices[1].amount_type = "fixed"
            /\ bret.value.prices[1].price_amount = Truncated(Strip(args.fixed_amount.v))
       ELSE Raised

\* C9: a returned payload has one or two prices; the first is the base
\* price, of the price type asked for; there are two exactly when metered
\* pricing is enabled, and then the second is of type metered_unit and
\* carries the given meter id and the given unit_amount (each without its
\* surrounding blanks) as a string.
C9_PricesBaseThenMetered ==
    (Built /\ Returned)
    => LET prices == bret.value.prices
       IN  /\ Len(prices) \in {1, 2}
           /\ prices[1].amount_type \in {"fixed", "custom", "free"}
           /\ prices[1].amount_type = args.price_type
           /\ Len(prices) = 2 <=> args.enable_metered
           /\ args.enable_metered =>
                 /\ prices[2].amount_type = "metered_unit"
                 /\ prices[2].meter_id = Strip(args.meter_id)
                 /\ prices[2].unit_amount = Strip(args.unit_amount.v)

\* plan = month, a valid UUID as meter id and unit_amount "0.05": two prices
C9_Witness ==
    /\ Built /\ Returned
    /\ args.plan = "month" /\ args.enable_metered
    /\ args.meter_id = GoodUuid
    /\ args.unit_amount = Str(<<"0", ".", "0", "5">>)
    /\ Len(bret.value.prices) = 2
    /\ bret.value.prices[2].unit_amount = <<"0", ".", "0", "5">>

\* the rules before the organization id pass
BeforeOrgOk == BeforeMeteredOk /\ ~MeteredRuleViolated

\* C10 as stated: an org_id that is not a UUID always fails with the
\* invalid-organization-id error.
C10_BadOrgAlwaysOrgError ==
    Built /\ OrgRuleViolated => RaisedWith(ERR_ORG)

\* C10, amended: an org_id that is supplied and is not a UUID always makes
\* the builder fail, with the invalid-organization-id error when no earlier
\* rule is violated; an empty org_id lets an otherwise valid input succeed
\* with a payload that has no organization_id key; a valid UUID is attached
\* to the payload of an otherwise valid input as organization_id.
C10_OrgIdRule ==
    Built =>
        /\ OrgRuleViolated => Raised /\ (BeforeOrgOk => RaisedWith(ERR_ORG))
        /\ args.org_id = <<>> /\ BeforeOrgOk =>
              Returned /\ "organization_id" \notin DOMAIN bret.value
        /\ Strip(args.org_id) # <<>> /\ is_uuid(args.org_id) /\ BeforeOrgOk =>
              /\ Returned
              /\ "organization_id" \in DOMAIN bret.value
              /\ bret.value.organization_id = Strip(args.org_id)
              /\ is_uuid(bret.value.organization_id)

\* "not-a-uuid" as org_id of an otherwise valid input: the organization
\* error is raised
C10_Witness ==
    /\ Built /\ BeforeOrgOk
    /\ args.org_id = NotAUuid
    /\ RaisedWith(ERR_ORG)

---------------------------------------------------------------------------
(* The gateway's claims.  They are stated on the last call (call), its     *)
(* outcome (ret) and what format_json_output made of it (shown).           *)

CallMade == ret # NotCalled

GotResponse == call.wire.kind = "response"

Got2xx ==
    GotResponse /\ 200 <= call.wire.status_code /\ call.wire.status_code < 300

\* a 2xx response whose body is not blank and is not JSON
GotUndecodable == Got2xx /\ Strip(call.wire.text) # <<>> /\ ~IsJson(call.wire.text)

\* the call failed: no supported verb, no response, a status that is not
\* 2xx, or a 2xx body that does not decode
CallFailed == ~call.sent \/ ~Got2xx \/ GotUndecodable

\* the value carries the error marker
IsErrorRecord(v) == v.tag = "dict" /\ "error" \in DOMAIN v.v

\* C3: every call of _make_request returns a value, and the value carries
\* the error marker if and only if the call failed; format_json_output
\* shows it as an error if and only if the call failed.
C3_ErrorMarkerIffFailed ==
    CallMade =>
        /\ ret.kind = "return"
        /\ IsErrorRecord(ret.value) <=> CallFailed
        /\ shown # NotCalled => (shown.kind = "error" <=> CallFailed)

\* C4: a call with a supported verb that gets a status that is not 2xx, or
\* no response, returns an error record whose status code is the status
\* received (None without response) and whose body is the text received.
C4_FailureKeepsStatusAndBody ==
    (CallMade /\ call.sent /\ ~Got2xx) =>
        /\ ret.kind = "return"
        /\ IsErrorRecord(ret.value)
        /\ Get(ret.value.v, "status_code") =
              (IF GotResponse THEN IntV(call.wire.status_code) ELSE None)
        /\ Get(ret.value.v, "body") =
              (IF GotResponse THEN Str(call.wire.text) ELSE None)

\* C5: a 2xx response whose body is not blank and is not JSON gives an
\* error record that is returned, nothing raised, and that keeps the text
\* received as its body.
C5_UndecodableBodyKept ==
    (CallMade /\ call.sent /\ GotUndecodable) =>
        /\ ret.kind = "return"
        /\ IsErrorRecord(ret.value)
        /\ Get(ret.value.v, "body") = Str(call.wire.text)

---------------------------------------------------------------------------
(* The operations' claims.                                                 *)

\* the operation functions that contact the remote API once initialized
RemoteOperations ==
    {"get_organizations", "get_organization_details", "get_products",
     "get_product_details", "create_product_simple_action",
     "create_checkout_session", "get_subscriptions", "get_subscription_details",
     "get_orders", "get_order_details", "get_benefits", "create_new_benefit",
     "get_customers", "get_webhook_endpoints", "create_webhook_endpoint"}

\* what the caller reads first: the value, or the first element of a tuple
Message(o) ==
    IF o.value.tag = "tuple" THEN o.value.v[1] ELSE o.value

\* o is the instruction to initialize first: the fixed sentence, after at
\* most a blank or the cross mark
SaysNotInitialized(o) ==
    /\ o.kind = "return"
    /\ Message(o).tag = "text"
    /\ Message(o).v \in {<<NOT_INITIALIZED>>, <<" ", NOT_INITIALIZED>>,
                         <<CROSS, NOT_INITIALIZED>>}

\* the last operation was called while no client was stored
CalledUninitialized ==
    op # None /\ op.client = None

\* C11: an operation function that would contact the remote API, called
\* while polar_api is None, returns the instruction to initialize the API
\* connection first and attempts no outbound call, whatever operations came
\* before it.
C11_UninitializedNeverCalls ==
    (CalledUninitialized /\ op.name \in RemoteOperations)
        => /\ SaysNotInitialized(out)
           /\ calls = 0
           /\ pending = None
           /\ polar_api = None

\* C11, witness: a creation with arguments that would pass every check was
\* called before any initialization and was told to initialize first
C11_Witness ==
    /\ CalledUninitialized
    /\ op.name = "create_checkout_session"
    /\ op.args = [product_ids |-> <<"p", ",", " ", "q", ",">>, success_url |-> "id_1"]
    /\ SaysNotInitialized(out)
    /\ calls = 0

\* the last operation has returned to its caller
Completed ==
    op # None /\ pending = None

\* what the operation functions answer to arguments they refuse
ValidationMessages ==
    {"Access token is required", "Organization ID is required",
     "Product ID is required", "Product IDs and success URL are required",
     "At least one product ID is required", "Subscription ID is required",
     "Order ID is required",
     "Organization ID, type, and description are required",
     "Invalid JSON in properties field",
     "Organization ID, URL, and events are required"}

\* the last operation ended by refusing its arguments
EndedInValidationError ==
    /\ Completed
    /\ out.kind = "return"
    /\ Message(out).tag = "text"
    /\ \E m \in ValidationMessages : Message(out).v \in {<<m>>, <<CROSS, m>>}

\* the last operation was the product creation, with a client stored, on
\* arguments the builder refuses
BuilderRefused ==
    /\ op # None
    /\ op.name = "create_product_simple_action"
    /\ op.client # None
    /\ build_product_payload_simple(op.args).kind = "raise"

\* the last operation was _make_request with a verb it does not support
UnsupportedVerb ==
    /\ op # None
    /\ op.name = "_make_request"
    /\ ~Supported(op.args.method)

\* C12: an operation issues at most one outbound call, and none when it
\* ends in a validation error: the product creation reports the builder's
\* failure with no call, and _make_request answers an unsupported verb with
\* a local error record and no call.
C12_OneCallNoneOnValidationError ==
    /\ calls <= 1
    /\ (Completed /\ call # None) => calls = 1
    /\ EndedInValidationError => (calls = 0 /\ call = None)
    /\ BuilderRefused
        => /\ calls = 0
           /\ pending = None
           /\ out = Return(Tuple(<<Text(<<build_product_payload_simple(op.args).msg>>),
                                   Text(<<>>), Text(<<>>)>>))
    /\ UnsupportedVerb
        => /\ calls = 0
           /\ pending = None
           /\ out.kind = "return"
           /\ IsErrorRecord(out.value)
           /\ "status_code" \notin DOMAIN out.value.v

\* C12, witness: with a client stored, the product creation was called
\* with a name that is too short and returned the builder's message
C12_Witness ==
    /\ BuilderRefused
    /\ Completed
    /\ calls = 0
    /\ out.kind = "return"
    /\ out.value.tag = "tuple"

\* an outbound call of the gateway is in flight
GatewayCallInFlight ==
    pending # None /\ pending.request.by = "_make_request"

\* the call in flight has nothing to end it: the remote never answers, and
\* the call was made without a timeout
WaitsForever ==
    pending # None /\ pending.silent /\ pending.request.timeout = None

\* C13: every outbound call of the gateway is made with a timeout, so that
\* no call of the gateway waits forever on a remote that never answers.
C13_GatewayCallsBounded ==
    GatewayCallInFlight
        => /\ pending.request.timeout # None
           /\ ~WaitsForever

\* a complete client for a token and a sandbox flag, field by field
CompleteClient(token, sandbox) ==
    [access_token |-> token,
     base_url |-> IF sandbox THEN "https://sandbox-api.polar.sh/v1"
                  ELSE "https://api.polar.sh/v1",
     headers |-> [Authorization |-> <<"Bearer ">> \o token,
                  ContentType |-> "application/json"]]

\* the last operation was initialize_polar_api
Initializing ==
    op # None /\ op.name = "initialize_polar_api"

\* the connectivity check of the last initialization ended in an error
ConnectFailed ==
    /\ Initializing
    /\ Completed
    /\ calls = 1
    /\ out # Return(Text(<<"Connected to Polar">>))

\* what holds of the stored client in every state: after an initialization
\* with an empty token it is the client from before, with no call made;
\* after one with a token it is the complete new client, while the
\* connectivity check is in flight and whatever the check's outcome; and an
\* operation called with a client stored goes to the network instead of
\* answering that the API is not initialized
StoredClientInvariant ==
    /\ (Initializing /\ op.args.access_token = <<>>)
        => /\ polar_api = op.client
           /\ out = Return(Text(<<"Access token is required">>))
           /\ calls = 0
    /\ (Initializing /\ op.args.access_token # <<>>)
        => /\ polar_api = CompleteClient(op.args.access_token, op.args.use_sandbox)
           /\ calls = 1
    /\ (op # None /\ ~Initializing) => polar_api = op.client
    /\ (op # None /\ op.name \in RemoteOperations /\ op.client # None)
        => ~SaysNotInitialized(out)
    /\ (op # None /\ op.name = "get_organizations" /\ op.client # None)
        => calls = 1

\* a step that changes the stored client is a call of initialize_polar_api
\* with a token, and the whole client is the new one; the end of an
\* outbound call never changes it
StoredClientStep ==
    polar_api' # polar_api
        => /\ pending = None
           /\ pending' # None
           /\ op'.name = "initialize_polar_api"
           /\ op'.client = polar_api
           /\ op'.args.access_token # <<>>
           /\ polar_api' = CompleteClient(op'.args.access_token, op'.args.use_sandbox)

\* C14: the stored client changes only in initialize_polar_api and only as
\* a whole: an empty token leaves it unchanged; a token installs the
\* complete new client (token, base URL by the sandbox flag, headers) before
\* the connectivity check and keeps it when the check fails, so that later
\* operations issue network calls; no other operation modifies it.
C14_ClientReplacedWholeOnlyByInitialize ==
    []StoredClientInvariant /\ [][StoredClientStep]_vars

\* C14, witness: a second initialization replaced the client of the first
\* with another complete one and its connectivity check failed
C14_Witness ==
    /\ ConnectFailed
    /\ op.client = CompleteClient(Token, TRUE)
    /\ polar_api = CompleteClient(<<" ">>, FALSE)

=============================================================================
